---- MODULE Spec2Model ----
(***************************************************************************)
(* The per-socket operation state machine of ringbahn's TCP bindings       *)
(* (src/net/tcp/listener.rs, src/net/tcp/stream.rs): the `active` tag, the  *)
(* guard that every poll runs first, the scratch memory lent to the kernel  *)
(* (the listener's address buffer, the stream's Buffer) and teardown on     *)
(* drop.  One socket object is modelled, a TcpListener or a TcpStream,      *)
(* together with the kernel operations it submitted through its Ring.       *)
(*                                                                          *)
(* Ring and Buffer are not part of the sources at hand; they are modelled   *)
(* from their documented contracts (submit-or-poll, cancel(token);          *)
(* fill_buf, consume, clear, cancellation).                                 *)
(***************************************************************************)
EXTENDS Integers, Sequences, FiniteSets, TLC

VARIABLES
    sock,       \* "listener" (TcpListener) or "stream" (TcpStream)
    active,     \* the Op tag: Nothing, Accept, Read, Write, Close, Closed
    addr,       \* TcpListener.addr: 0 is None, b > 0 is Some(Box b)
    buf,        \* TcpStream.buf: [data, pos, cap], data 0 is a null pointer
    ring,       \* Ring: index in ops of the completion it holds, 0 if inert
    ops,        \* every kernel operation this socket submitted, in order
    freed,      \* memory blocks that were deallocated
    nbuf,       \* number of memory blocks allocated so far
    fdClosed,   \* number of synchronous libc::close(fd) calls
    dropped,    \* the socket object was dropped
    call,       \* the handler that ran in the last step
    last,       \* what that handler returned: [ret, n]
    trace,      \* the driver-visible events of the last step, in order
    items,      \* items yielded so far by Incoming / IncomingNoAddr
    setup,      \* the address argument: [resolves, cands], cands the outcome
                \* of raw socket creation for each resolved candidate, in order
    conn,       \* the Connect future of TcpStream::connect_on_driver
    attempt,    \* the op kind whose attempt is in progress, or "none"
    attempts    \* number of distinct operation attempts begun so far

vars == <<sock, active, addr, buf, ring, ops, freed, nbuf, fdClosed, dropped,
          call, last, trace, items, setup, conn, attempt, attempts>>

\* Bounds of the model.
MaxOps == 2        \* kernel submissions per socket
MaxLen == 1        \* length of a caller's slice in poll_read / poll_write
MaxAttempts == 3   \* distinct operation attempts per socket
MaxCands == 3      \* resolved candidate addresses of one address argument
\* Buffer's capacity, in bytes (scaled down).
Capacity == 1

Min(a, b) == IF a < b THEN a ELSE b

\* The whole state as one record, so that a handler is a function on it.
St == [sock |-> sock, active |-> active, addr |-> addr, buf |-> buf,
       ring |-> ring, ops |-> ops, freed |-> freed, nbuf |-> nbuf,
       fdClosed |-> fdClosed, dropped |-> dropped, call |-> call,
       last |-> last, trace |-> trace, items |-> items,
       setup |-> setup, conn |-> conn]

Set(s) ==
    /\ sock' = s.sock
    /\ active' = s.active
    /\ addr' = s.addr
    /\ buf' = s.buf
    /\ ring' = s.ring
    /\ ops' = s.ops
    /\ freed' = s.freed
    /\ nbuf' = s.nbuf
    /\ fdClosed' = s.fdClosed
    /\ dropped' = s.dropped
    /\ call' = s.call
    /\ last' = s.last
    /\ trace' = s.trace
    /\ items' = s.items
    /\ setup' = s.setup
    /\ conn' = s.conn

Ev(e, a) == [ev |-> e, arg |-> a]
emit(s, e, a) == [s EXCEPT !.trace = Append(@, Ev(e, a))]
Ret(s, r, n) == [s EXCEPT !.last = [ret |-> r, n |-> n]]
Begin(s, name) ==
    [s EXCEPT !.trace = <<>>, !.call = name, !.last = [ret |-> "none", n |-> 0]]
free(s, b) == IF b = 0 THEN s ELSE [s EXCEPT !.freed = @ \cup {b}]

(***************************************************************************)
(* Ring (crate::ring), from its contract.                                  *)
(***************************************************************************)
\* Ring::poll: submits once, then polls the completion on later calls.
Ring_poll(s, kind, mem, len) ==
    IF s.ring = 0
    THEN LET op == [kind |-> kind, mem |-> mem, len |-> len, st |-> "inflight",
                    res |-> "none", n |-> 0, own |-> "ring", token |-> 0]
             s1 == [s EXCEPT !.ops = Append(@, op), !.ring = Len(s.ops) + 1]
         IN  Ret(emit(s1, "submit", Len(s.ops) + 1), "Pending", 0)
    ELSE IF s.ops[s.ring].st = "done"
         THEN LET o == s.ops[s.ring]
                  s1 == [s EXCEPT !.ops[s.ring].own = "observed", !.ring = 0]
              IN  Ret(s1, IF o.res = "ok" THEN "Ok" ELSE "Err", o.n)
         ELSE Ret(s, "Pending", 0)

\* Ring::cancel / cancel_pinned: the completion it holds, if any, is handed to
\* the driver with the token; with none the token is released at once.
Ring_cancel(s, token) ==
    LET s1 == emit(s, "cancel", token)
    IN  IF s.ring = 0
        THEN free(s1, token)
        ELSE [s1 EXCEPT !.ops[s.ring].own = "cancelled",
                        !.ops[s.ring].token = token,
                        !.ring = 0]

(***************************************************************************)
(* TcpListener                                                             *)
(***************************************************************************)
\* The guard with the cancel left out: the ring's completion is overwritten.
TcpListener_guard_op_forget(s, op) ==
    IF s.active = "Closed"
    THEN Ret(emit(s, "panic", 0), "Panic", 0)
    ELSE IF s.active /= "Nothing" /\ s.active /= op
         THEN Ret([s EXCEPT !.addr = 0, !.ring = 0, !.active = op], "Go", 0)
         ELSE Ret([s EXCEPT !.active = op], "Go", 0)

\* The guard cancelling on every poll of a live socket, same kind or not.
TcpListener_guard_op_always(s, op) ==
    IF s.active = "Closed"
    THEN Ret(emit(s, "panic", 0), "Panic", 0)
    ELSE IF s.active /= "Nothing"
         THEN Ret([Ring_cancel([s EXCEPT !.addr = 0], s.addr)
                       EXCEPT !.active = op], "Go", 0)
         ELSE Ret([s EXCEPT !.active = op], "Go", 0)

\* The guard without its closed check.
TcpListener_guard_op_nopanic(s, op) ==
    IF s.active /= "Nothing" /\ s.active /= op /\ s.active /= "Closed"
    THEN Ret([Ring_cancel([s EXCEPT !.addr = 0], s.addr)
                  EXCEPT !.active = op], "Go", 0)
    ELSE Ret([s EXCEPT !.active = op], "Go", 0)

TcpListener_guard_op(s, op) ==
    IF s.active = "Closed"
    THEN Ret(emit(s, "panic", 0), "Panic", 0)
    ELSE IF s.active /= "Nothing" /\ s.active /= op
         THEN Ret([Ring_cancel([s EXCEPT !.addr = 0], s.addr)
                       EXCEPT !.active = op], "Go", 0)
         ELSE Ret([s EXCEPT !.active = op], "Go", 0)

\* cancel() closing the descriptor as well.
TcpListener_cancel_close(s) ==
    IF s.active = "Accept"
    THEN emit(Ring_cancel([s EXCEPT !.addr = 0, !.active = "Nothing",
                                    !.fdClosed = @ + 1], s.addr),
              "close_fd", 0)
    ELSE IF s.active = "Close"
         THEN emit(Ring_cancel([s EXCEPT !.active = "Nothing",
                                         !.fdClosed = @ + 1], 0), "close_fd", 0)
         ELSE s

\* cancel() handing over an empty token while accepting: the address buffer
\* stays in the listener and is freed with it.
TcpListener_cancel_notoken(s) ==
    IF s.active \in {"Accept", "Close"}
    THEN Ring_cancel([s EXCEPT !.active = "Nothing"], 0)
    ELSE s

TcpListener_cancel(s) ==
    IF s.active = "Accept"
    THEN Ring_cancel([s EXCEPT !.addr = 0, !.active = "Nothing"], s.addr)
    ELSE IF s.active = "Close"
         THEN Ring_cancel([s EXCEPT !.active = "Nothing"], 0)
         ELSE s

drop_addr(s) == [free(s, s.addr) EXCEPT !.addr = 0]

\* split_with_addr allocating a new address buffer on every call.
split_with_addr_always(s) ==
    [s EXCEPT !.addr = s.nbuf + 1, !.nbuf = s.nbuf + 1]

split_with_addr(s) ==
    IF s.addr = 0
    THEN [s EXCEPT !.addr = s.nbuf + 1, !.nbuf = s.nbuf + 1]
    ELSE s

TcpListener_confirm_close(s) == [s EXCEPT !.active = "Closed"]

\* d is what decoding the address buffer gives when the kernel never wrote it
\* (the completed submission carried another buffer, or none).
TcpListener_poll_accept(s, d) ==
    LET g == TcpListener_guard_op(s, "Accept")
    IN  IF g.last.ret = "Panic" THEN g
        ELSE LET a == split_with_addr(g)
                 op == a.ring
                 r == Ring_poll(a, "Accept", a.addr, 1)
             IN  IF r.last.ret = "Pending" THEN r
                 ELSE IF r.last.ret = "Err" THEN Ret(r, "ReadyErr", 0)
                 ELSE LET decoded == IF a.ops[op].mem = a.addr THEN "ReadyOk" ELSE d
                          f == drop_addr(r)
                      IN  IF decoded = "Panic"
                          THEN Ret(emit(f, "panic", 0), "Panic", 0)
                          ELSE IF decoded = "ReadyErr" THEN Ret(f, "ReadyErr", 0)
                          ELSE Ret(emit(f, "from_fd", 0), "ReadyOk", 0)

\* poll_accept_no_addr submitting the accept again when it completed with an
\* error, instead of returning the error.
TcpListener_poll_accept_no_addr_retry(s) ==
    LET g == TcpListener_guard_op(s, "Accept")
    IN  IF g.last.ret = "Panic" THEN g
        ELSE LET r == Ring_poll(g, "Accept", 0, 0)
             IN  IF r.last.ret = "Pending" THEN r
                 ELSE IF r.last.ret = "Err" THEN Ring_poll(r, "Accept", 0, 0)
                 ELSE Ret(emit(r, "from_fd", 0), "ReadyOk", 0)

TcpListener_poll_accept_no_addr(s) ==
    LET g == TcpListener_guard_op(s, "Accept")
    IN  IF g.last.ret = "Panic" THEN g
        ELSE LET r == Ring_poll(g, "Accept", 0, 0)
             IN  IF r.last.ret = "Pending" THEN r
                 ELSE IF r.last.ret = "Err" THEN Ret(r, "ReadyErr", 0)
                 ELSE Ret(emit(r, "from_fd", 0), "ReadyOk", 0)

\* Close::poll confirming the close whatever the completion says.
Close_poll_confirm_err(s) ==
    LET g == TcpListener_guard_op(s, "Close")
    IN  IF g.last.ret = "Panic" THEN g
        ELSE LET r == Ring_poll(g, "Close", 0, 0)
             IN  IF r.last.ret = "Pending" THEN r
                 ELSE IF r.last.ret = "Err"
                      THEN Ret(TcpListener_confirm_close(r), "ReadyErr", 0)
                      ELSE Ret(TcpListener_confirm_close(r), "ReadyOk", 0)

\* Future::poll of Close
Close_poll(s) ==
    LET g == TcpListener_guard_op(s, "Close")
    IN  IF g.last.ret = "Panic" THEN g
        ELSE LET r == Ring_poll(g, "Close", 0, 0)
             IN  IF r.last.ret = "Pending" THEN r
                 ELSE IF r.last.ret = "Err" THEN Ret(r, "ReadyErr", 0)
                 ELSE Ret(TcpListener_confirm_close(r), "ReadyOk", 0)

\* Stream::poll_next of Incoming
Incoming_poll_next(s, d) ==
    LET r == TcpListener_poll_accept(s, d)
    IN  IF r.last.ret = "ReadyOk"
        THEN Ret([r EXCEPT !.items = @ + 1], "ReadySomeOk", 0)
        ELSE IF r.last.ret = "ReadyErr"
             THEN Ret([r EXCEPT !.items = @ + 1], "ReadySomeErr", 0)
             ELSE r

\* Stream::poll_next of IncomingNoAddr
IncomingNoAddr_poll_next(s) ==
    LET r == TcpListener_poll_accept_no_addr(s)
    IN  IF r.last.ret = "ReadyOk"
        THEN Ret([r EXCEPT !.items = @ + 1], "ReadySomeOk", 0)
        ELSE IF r.last.ret = "ReadyErr"
             THEN Ret([r EXCEPT !.items = @ + 1], "ReadySomeErr", 0)
             ELSE r

\* Drop closing the descriptor of a closed listener a second time.
TcpListener_drop_reclose(s) ==
    LET t == IF s.active \in {"Closed", "Nothing"}
             THEN emit([s EXCEPT !.fdClosed = @ + 1], "close_fd", 0)
             ELSE TcpListener_cancel(s)
    IN  [free(t, t.addr) EXCEPT !.addr = 0, !.dropped = TRUE]

\* Drop::drop, then the fields are dropped: a remaining address buffer is freed.
TcpListener_drop(s) ==
    LET t == IF s.active = "Closed" THEN s
             ELSE IF s.active = "Nothing"
                  THEN emit([s EXCEPT !.fdClosed = @ + 1], "close_fd", 0)
                  ELSE TcpListener_cancel(s)
    IN  [free(t, t.addr) EXCEPT !.addr = 0, !.dropped = TRUE]

(***************************************************************************)
(* Buffer (crate::buf), from its contract.                                 *)
(***************************************************************************)
\* fill_buf allocates the backing region when there is none.
Buffer_alloc(s) ==
    IF s.buf.data = 0
    THEN [s EXCEPT !.buf.data = s.nbuf + 1, !.nbuf = s.nbuf + 1]
    ELSE s

Buffer_clear(s) == [s EXCEPT !.buf.pos = 0, !.buf.cap = 0]

Buffer_consume(s, amt) == [s EXCEPT !.buf.pos = Min(@ + amt, s.buf.cap)]

\* cancellation() moves the backing region out into the token (s.buf.data
\* before the call) and leaves an empty Buffer behind.
Buffer_cancellation(s) == [s EXCEPT !.buf = [data |-> 0, pos |-> 0, cap |-> 0]]

(***************************************************************************)
(* TcpStream                                                               *)
(***************************************************************************)
\* The guard with the cancel left out: the ring's completion is overwritten.
TcpStream_guard_op_forget(s, op) ==
    IF s.active = "Closed"
    THEN Ret(emit(s, "panic", 0), "Panic", 0)
    ELSE IF s.active /= "Nothing" /\ s.active /= op
         THEN Ret([Buffer_cancellation(s) EXCEPT !.ring = 0, !.active = op], "Go", 0)
         ELSE Ret([s EXCEPT !.active = op], "Go", 0)

\* The guard cancelling with an empty token: the buffer stays in the stream.
TcpStream_guard_op_emptytoken(s, op) ==
    IF s.active = "Closed"
    THEN Ret(emit(s, "panic", 0), "Panic", 0)
    ELSE IF s.active /= "Nothing" /\ s.active /= op
         THEN Ret([Ring_cancel(s, 0) EXCEPT !.active = op], "Go", 0)
         ELSE Ret([s EXCEPT !.active = op], "Go", 0)

\* The guard only setting the tag: nothing is cancelled on a switch.
TcpStream_guard_op_nocancel(s, op) ==
    IF s.active = "Closed"
    THEN Ret(emit(s, "panic", 0), "Panic", 0)
    ELSE Ret([s EXCEPT !.active = op], "Go", 0)

TcpStream_guard_op(s, op) ==
    IF s.active = "Closed"
    THEN Ret(emit(s, "panic", 0), "Panic", 0)
    ELSE IF s.active /= "Nothing" /\ s.active /= op
         THEN Ret([Ring_cancel(Buffer_cancellation(s), s.buf.data)
                       EXCEPT !.active = op], "Go", 0)
         ELSE Ret([s EXCEPT !.active = op], "Go", 0)

TcpStream_cancel(s) ==
    Ring_cancel(Buffer_cancellation([s EXCEPT !.active = "Nothing"]), s.buf.data)

TcpStream_confirm_close(s) == [s EXCEPT !.active = "Closed"]

\* AsyncBufRead::poll_fill_buf; last.n is the length of the region returned.
poll_fill_buf(s) ==
    LET g == TcpStream_guard_op(s, "Read")
    IN  IF g.last.ret = "Panic" THEN g
        ELSE IF g.buf.pos >= g.buf.cap
             THEN LET b == Buffer_alloc(g)
                      r == Ring_poll(b, "Read", b.buf.data, Capacity)
                  IN  IF r.last.ret = "Pending" THEN r
                      ELSE IF r.last.ret = "Err" THEN Ret(r, "ReadyErr", 0)
                      ELSE Ret([r EXCEPT !.buf.cap = r.last.n, !.buf.pos = 0],
                               "ReadyOk", r.last.n)
             ELSE Ret(g, "ReadyOk", g.buf.cap - g.buf.pos)

\* AsyncBufRead::consume
consume(s, amt) == Buffer_consume(s, amt)

\* AsyncRead::poll_read into a caller's slice of m bytes
poll_read(s, m) ==
    LET f == poll_fill_buf(s)
    IN  IF f.last.ret = "ReadyOk"
        THEN LET len == Min(m, f.last.n)
             IN  Ret(consume(f, len), "ReadyOk", len)
        ELSE f

\* AsyncWrite::poll_write of a caller's slice of m bytes
poll_write(s, m) ==
    LET g == TcpStream_guard_op(s, "Write")
    IN  IF g.last.ret = "Panic" THEN g
        ELSE LET b == IF g.buf.pos >= g.buf.cap
                      THEN LET a == Buffer_alloc(g)
                           IN  emit([a EXCEPT !.buf.cap = Min(m, Capacity),
                                              !.buf.pos = 0],
                                    "stage", a.buf.data)
                      ELSE g
                 r == Ring_poll(b, "Write", b.buf.data, b.buf.cap - b.buf.pos)
             IN  IF r.last.ret = "Pending" THEN r
                 ELSE IF r.last.ret = "Err" THEN Ret(r, "ReadyErr", 0)
                 ELSE Ret(Buffer_clear(r), "ReadyOk", r.last.n)

\* AsyncWrite::poll_flush
poll_flush(s) == poll_write(s, 0)

\* AsyncWrite::poll_close
poll_close(s) ==
    LET g == TcpStream_guard_op(s, "Close")
    IN  IF g.last.ret = "Panic" THEN g
        ELSE LET r == Ring_poll(g, "Close", 0, 0)
             IN  IF r.last.ret = "Pending" THEN r
                 ELSE IF r.last.ret = "Err" THEN Ret(r, "ReadyErr", 0)
                 ELSE Ret(TcpStream_confirm_close(r), "ReadyOk", 0)

\* Drop::drop, then the fields are dropped: a remaining backing region is freed.
TcpStream_drop(s) ==
    LET t == IF s.active = "Closed" THEN s
             ELSE IF s.active = "Nothing"
                  THEN emit([s EXCEPT !.fdClosed = @ + 1], "close_fd", 0)
                  ELSE TcpStream_cancel(s)
    IN  [free(t, t.buf.data) EXCEPT !.buf.data = 0, !.dropped = TRUE]

(***************************************************************************)
(* Socket setup (net/tcp/mod.rs) and Connect                               *)
(***************************************************************************)
\* The loop of socket() over the candidates from the i-th on; error is the
\* error to return when none is left.
RECURSIVE socket_loop(_, _, _)
socket_loop(c, i, error) ==
    IF i > Len(c)
    THEN [ok |-> FALSE, err |-> error, idx |-> 0, tried |-> Len(c)]
    ELSE IF c[i] = "ok"
         THEN [ok |-> TRUE, err |-> "none", idx |-> i, tried |-> i]
         ELSE socket_loop(c, i + 1, c[i])

\* The loop keeping the first OS error instead of the last one.
RECURSIVE socket_loop_first(_, _, _)
socket_loop_first(c, i, error) ==
    IF i > Len(c)
    THEN [ok |-> FALSE, err |-> error, idx |-> 0, tried |-> Len(c)]
    ELSE IF c[i] = "ok"
         THEN [ok |-> TRUE, err |-> "none", idx |-> i, tried |-> i]
         ELSE socket_loop_first(c, i + 1,
                                IF error = "InvalidInput" THEN c[i] ELSE error)

socket_first_error(a) ==
    IF ~a.resolves
    THEN [ok |-> FALSE, err |-> "ResolveErr", idx |-> 0, tried |-> 0]
    ELSE socket_loop_first(a.cands, 1, "InvalidInput")

\* socket(addr, protocol): idx is the candidate returned, tried the number of
\* raw socket creations made.
socket(a) ==
    IF ~a.resolves
    THEN [ok |-> FALSE, err |-> "ResolveErr", idx |-> 0, tried |-> 0]
    ELSE socket_loop(a.cands, 1, "InvalidInput")

NoConn == [tag |-> "none", err |-> "None", sub |-> "none", out |-> <<>>,
           res |-> [ok |-> FALSE, err |-> "none", idx |-> 0, tried |-> 0]]

\* TcpStream::connect_on_driver
connect_on_driver(s) ==
    LET r == socket(s.setup)
    IN  IF r.ok
        THEN [s EXCEPT !.conn = [tag |-> "Ok", err |-> "None", sub |-> "new",
                                 out |-> <<>>, res |-> r]]
        ELSE [s EXCEPT !.conn = [tag |-> "Err", err |-> r.err, sub |-> "none",
                                 out |-> <<>>, res |-> r]]

\* Connect::poll leaving the stored error in place.
Connect_poll_notake(s) ==
    IF s.conn.tag = "Ok"
    THEN IF s.conn.sub = "new"
         THEN Ret(emit([s EXCEPT !.conn.sub = "inflight"], "submit", 0), "Pending", 0)
         ELSE IF s.conn.sub = "inflight" THEN Ret(s, "Pending", 0)
         ELSE IF s.conn.sub = "ok"
              THEN Ret(emit([s EXCEPT !.conn.sub = "taken"], "from_fd", 0), "ReadyOk", 0)
              ELSE Ret([s EXCEPT !.conn.sub = "taken"], "ReadyErr", 0)
    ELSE Ret([s EXCEPT !.conn.out = Append(@, s.conn.err)], "ReadyErr", 0)

\* impl Future for Connect: poll.  The Submission submits on its first poll
\* and is ready once the kernel completed the connect.
Connect_poll(s) ==
    IF s.conn.tag = "Ok"
    THEN IF s.conn.sub = "new"
         THEN Ret(emit([s EXCEPT !.conn.sub = "inflight"], "submit", 0), "Pending", 0)
         ELSE IF s.conn.sub = "inflight" THEN Ret(s, "Pending", 0)
         ELSE IF s.conn.sub = "ok"
              THEN Ret(emit([s EXCEPT !.conn.sub = "taken"], "from_fd", 0), "ReadyOk", 0)
              ELSE Ret([s EXCEPT !.conn.sub = "taken"], "ReadyErr", 0)
    ELSE IF s.conn.err = "None"
         THEN Ret(emit(s, "panic", 0), "Panic", 0)
         ELSE Ret([s EXCEPT !.conn.out = Append(@, s.conn.err),
                            !.conn.err = "None"], "ReadyErr", 0)

\* The kernel finishes the connect with result res.
connect_complete(s, res) == [s EXCEPT !.conn.sub = res]

(***************************************************************************)
(* The kernel and the driver                                               *)
(***************************************************************************)
\* The kernel finishes operation i with result res, n bytes transferred.
complete(s, i, res, n) ==
    [s EXCEPT !.ops[i].st = "done", !.ops[i].res = res, !.ops[i].n = n]

\* The driver sees the completion of a cancelled operation and drops its token.
release(s, i) ==
    [free(s, s.ops[i].token) EXCEPT !.ops[i].own = "released"]

(***************************************************************************)
(* Specification                                                           *)
(***************************************************************************)
Decodes == {"ReadyOk", "ReadyErr", "Panic"}

\* OS errors of a failed raw socket creation.
Errnos == {"EMFILE", "EAFNOSUPPORT"}

\* The address arguments: resolution fails, or it gives up to MaxCands
\* candidates, each with the outcome of its raw socket creation.
Setups ==
    {[resolves |-> FALSE, cands |-> <<>>]} \cup
    {[resolves |-> TRUE, cands |-> c] :
        c \in UNION {[1..n -> {"ok"} \cup Errnos] : n \in 0..MaxCands}}

\* A socket object exists only after a successful setup.
Created == [resolves |-> TRUE, cands |-> <<"ok">>]

Init ==
    /\ \/ sock \in {"listener", "stream"} /\ setup = Created
       \/ sock = "connect" /\ setup \in Setups
    /\ conn = NoConn
    /\ active = "Nothing"
    /\ addr = 0
    /\ buf = [data |-> 0, pos |-> 0, cap |-> 0]
    /\ ring = 0
    /\ ops = <<>>
    /\ freed = {}
    /\ nbuf = 0
    /\ fdClosed = 0
    /\ dropped = FALSE
    /\ call = "new"
    /\ last = [ret |-> "none", n |-> 0]
    /\ trace = <<>>
    /\ items = 0
    /\ attempt = "none"
    /\ attempts = 0

\* One poll of an operation of the given kind, taking the socket to state t.
\* A poll of a kind with no attempt in progress begins a new attempt; the
\* attempt stays in progress while the poll returns Pending.  A poll of a
\* closed socket is refused by the guard and begins nothing.
Poll(kind, t) ==
    /\ ~dropped
    /\ Len(t.ops) <= MaxOps
    /\ Set(t)
    /\ IF active = "Closed"
       THEN UNCHANGED <<attempt, attempts>>
       ELSE /\ attempts' = IF attempt = kind THEN attempts ELSE attempts + 1
            /\ attempts' <= MaxAttempts
            /\ attempt' = IF t.last.ret = "Pending" THEN kind ELSE "none"

Accept ==
    /\ sock = "listener"
    /\ \E d \in Decodes : Poll("Accept", TcpListener_poll_accept(Begin(St, "accept"), d))

AcceptNoAddr ==
    /\ sock = "listener"
    /\ Poll("Accept", TcpListener_poll_accept_no_addr(Begin(St, "accept_no_addr")))

IncomingNext ==
    /\ sock = "listener"
    /\ \E d \in Decodes : Poll("Accept", Incoming_poll_next(Begin(St, "incoming"), d))

IncomingNoAddrNext ==
    /\ sock = "listener"
    /\ Poll("Accept", IncomingNoAddr_poll_next(Begin(St, "incoming_no_addr")))

ListenerClose ==
    /\ sock = "listener"
    /\ Poll("Close", Close_poll(Begin(St, "close")))

ListenerDrop ==
    /\ sock = "listener"
    /\ ~dropped
    /\ Set(TcpListener_drop(Begin(St, "drop")))
    /\ attempt' = "none"
    /\ UNCHANGED attempts

StreamRead ==
    /\ sock = "stream"
    /\ \E m \in 1..MaxLen : Poll("Read", poll_read(Begin(St, "read"), m))

StreamFillBuf ==
    /\ sock = "stream"
    /\ Poll("Read", poll_fill_buf(Begin(St, "fill_buf")))

\* AsyncBufRead's contract: consume follows a poll_fill_buf that returned a
\* region, with amt at most the length of that region.
StreamConsume ==
    /\ sock = "stream"
    /\ ~dropped
    /\ active = "Read"
    /\ ring = 0
    /\ \E amt \in 1..MaxLen :
          /\ amt <= buf.cap - buf.pos
          /\ Set(consume(Begin(St, "consume"), amt))
    /\ UNCHANGED <<attempt, attempts>>

StreamWrite ==
    /\ sock = "stream"
    /\ \E m \in 1..MaxLen : Poll("Write", poll_write(Begin(St, "write"), m))

StreamFlush ==
    /\ sock = "stream"
    /\ Poll("Write", poll_flush(Begin(St, "flush")))

StreamClose ==
    /\ sock = "stream"
    /\ Poll("Close", poll_close(Begin(St, "close")))

StreamDrop ==
    /\ sock = "stream"
    /\ ~dropped
    /\ Set(TcpStream_drop(Begin(St, "drop")))
    /\ attempt' = "none"
    /\ UNCHANGED attempts

ConnectOnDriver ==
    /\ sock = "connect"
    /\ conn.tag = "none"
    /\ Set(connect_on_driver(Begin(St, "connect")))
    /\ UNCHANGED <<attempt, attempts>>

\* A Connect whose submission completed is not polled again.
ConnectPoll ==
    /\ sock = "connect"
    /\ conn.tag /= "none"
    /\ conn.sub /= "taken"
    /\ Set(Connect_poll(Begin(St, "connect_poll")))
    /\ UNCHANGED <<attempt, attempts>>

ConnectKernel ==
    /\ sock = "connect"
    /\ conn.sub = "inflight"
    /\ \E res \in {"ok", "err"} : Set(connect_complete(Begin(St, "kernel"), res))
    /\ UNCHANGED <<attempt, attempts>>

KernelComplete ==
    \E i \in 1..Len(ops) :
        /\ ops[i].st = "inflight"
        /\ \E res \in {"ok", "err"} :
           \E n \in 0..ops[i].len :
              /\ (res = "err" \/ ops[i].kind \in {"Accept", "Close"}) => n = 0
              /\ Set(complete(Begin(St, "kernel"), i, res, n))
        /\ UNCHANGED <<attempt, attempts>>

DriverRelease ==
    \E i \in 1..Len(ops) :
        /\ ops[i].own = "cancelled"
        /\ ops[i].st = "done"
        /\ Set(release(Begin(St, "driver"), i))
        /\ UNCHANGED <<attempt, attempts>>

Next ==
    \/ Accept
    \/ AcceptNoAddr
    \/ IncomingNext
    \/ IncomingNoAddrNext
    \/ ListenerClose
    \/ ListenerDrop
    \/ StreamRead
    \/ StreamFillBuf
    \/ StreamConsume
    \/ StreamWrite
    \/ StreamFlush
    \/ StreamClose
    \/ StreamDrop
    \/ ConnectOnDriver
    \/ ConnectPoll
    \/ ConnectKernel
    \/ KernelComplete
    \/ DriverRelease

Spec == Init /\ [][Next]_vars

(***************************************************************************)
(* Properties                                                              *)
(***************************************************************************)
OpIds == 1..Len(ops)

\* Submitted, not yet observed complete, not handed to the driver.
Outstanding == {i \in OpIds : ops[i].own = "ring"}

PollCalls == {"accept", "accept_no_addr", "incoming", "incoming_no_addr",
              "close", "read", "fill_buf", "write", "flush"}

Cancels(tr) == {k \in 1..Len(tr) : tr[k].ev = "cancel"}
Submits(tr) == {k \in 1..Len(tr) : tr[k].ev = "submit"}

C2_CancelBeforeSubmit ==
    [][\A k \in Submits(trace') :
         \A i \in Outstanding :
            ops[i].kind /= ops'[trace'[k].arg].kind =>
               \E j \in Cancels(trace') :
                  /\ j < k
                  /\ ops'[i].own = "cancelled"
                  /\ ops'[i].token = trace'[j].arg
                  /\ ops[i].mem /= 0 => trace'[j].arg = ops[i].mem]_vars

\* A write poll on a reading stream: cancel of the read's buffer, then submit.
C2_Witness ==
    /\ sock = "stream"
    /\ call \in {"write", "flush"}
    /\ \E j \in Cancels(trace) : \E k \in Submits(trace) :
          /\ j < k
          /\ ops[trace[k].arg].kind = "Write"
          /\ \E i \in OpIds :
                /\ ops[i].kind = "Read"
                /\ ops[i].own = "cancelled"
                /\ ops[i].mem /= 0
                /\ ops[i].mem = trace[j].arg

\* The memory block b is held by the socket.
Held(b) == ~dropped /\ (addr = b \/ buf.data = b)

C4_NoResubmission ==
    [][/\ Len(ops') >= Len(ops)
       /\ Len(ops') <= attempts'
       /\ attempts' = attempts => Len(ops') = Len(ops)]_vars

\* An operation in progress was polled again, with one submission so far.
C4_Witness ==
    /\ call \in PollCalls
    /\ last.ret = "Pending"
    /\ trace = <<>>
    /\ ring /= 0
    /\ Len(ops) = 1

\* C5: dropping a socket that is not closed and has no kernel operation
\* outstanding closes its descriptor synchronously and issues no cancellation.
C5_DropIdleClosesFd ==
    [][(~dropped /\ dropped' /\ active /= "Closed" /\ Outstanding = {}) =>
          /\ fdClosed' = fdClosed + 1
          /\ Cancels(trace') = {}]_vars

\* C6: dropping a socket while a kernel operation is outstanding issues exactly
\* one driver cancellation, carrying that operation's scratch memory (the
\* address buffer when accepting, the stream's buffer, nothing for a closing
\* listener), and does not close the descriptor.
C6_DropOutstandingCancels ==
    [][(~dropped /\ dropped' /\ Outstanding /= {}) =>
          /\ Cardinality(Cancels(trace')) = 1
          /\ fdClosed' = fdClosed
          /\ \A k \in 1..Len(trace') : trace'[k].ev /= "close_fd"
          /\ \A i \in Outstanding : \A k \in Cancels(trace') :
                /\ ops'[i].own = "cancelled"
                /\ ops'[i].token = trace'[k].arg
                /\ ops[i].mem /= 0 => trace'[k].arg = ops[i].mem
                /\ (sock = "listener" /\ active = "Accept") => trace'[k].arg = addr
                /\ (sock = "listener" /\ active = "Close") => trace'[k].arg = 0
                /\ sock = "stream" => trace'[k].arg = buf.data]_vars

\* A socket was dropped with an operation in flight on its buffer.
C6_Witness ==
    /\ dropped
    /\ call = "drop"
    /\ fdClosed = 0
    /\ Len(trace) = 1
    /\ trace[1].ev = "cancel"
    /\ trace[1].arg /= 0
    /\ \E i \in OpIds : ops[i].own = "cancelled" /\ ops[i].mem = trace[1].arg

\* C7: every poll of any operation on a closed socket panics before any kernel
\* submission or driver cancellation is made.
C7_ClosedPanics ==
    [][(active = "Closed" /\ ~dropped /\ call' \in PollCalls) =>
          /\ last'.ret = "Panic"
          /\ trace' = <<Ev("panic", 0)>>
          /\ ops' = ops
          /\ ring' = ring
          /\ active' = "Closed"]_vars

\* The close operation itself was polled on a closed socket.
C7_Witness ==
    /\ active = "Closed"
    /\ call = "close"
    /\ last.ret = "Panic"

\* C8: once the tag is closed no step changes it, and dropping a closed socket
\* neither issues a cancellation nor closes the descriptor.
C8_ClosedTerminal ==
    [][active = "Closed" =>
          /\ active' = "Closed"
          /\ (~dropped /\ dropped') =>
                /\ trace' = <<>>
                /\ fdClosed' = fdClosed
                /\ ops' = ops]_vars

\* A closed socket was dropped.
C8_Witness ==
    /\ active = "Closed"
    /\ dropped
    /\ call = "drop"

\* C9: the tag becomes closed only in a close poll that observed the kernel
\* close complete without error; a close poll that is pending or observes an
\* error leaves the tag at closing.
C9_ClosedOnlyAfterClose ==
    [][/\ (active /= "Closed" /\ active' = "Closed") =>
             /\ call' = "close"
             /\ last'.ret = "ReadyOk"
             /\ ring /= 0
             /\ ops[ring].kind = "Close"
             /\ ops[ring].st = "done"
             /\ ops[ring].res = "ok"
             /\ ops'[ring].own = "observed"
       /\ (call' = "close" /\ last'.ret \in {"Pending", "ReadyErr"}) =>
             active' = "Close"
       /\ active' = "Closed" =>
             \E i \in 1..Len(ops') :
                /\ ops'[i].kind = "Close"
                /\ ops'[i].res = "ok"
                /\ ops'[i].own = "observed"]_vars

\* A close poll observed an error completion: the socket stays closing.
C9_Witness ==
    /\ call = "close"
    /\ last.ret = "ReadyErr"
    /\ active = "Close"
    /\ \E i \in OpIds : ops[i].kind = "Close" /\ ops[i].res = "err" /\ ops[i].own = "observed"

\* C10: a poll of incoming / incoming_no_addr never signals the end of the
\* sequence; it yields exactly one item for a ready accept completion it
\* observes and none otherwise; and with the accept still in flight it returns
\* pending and leaves the item count and the outstanding accept unchanged.
C10_IncomingYieldsEachCompletion ==
    [][(call' \in {"incoming", "incoming_no_addr"} /\ active /= "Closed") =>
          /\ last'.ret /= "ReadyNone"
          /\ items' = IF ring /= 0 /\ ops'[ring].own = "observed"
                      THEN items + 1 ELSE items
          /\ (last'.ret \in {"ReadySomeOk", "ReadySomeErr"}) <=> (items' = items + 1)
          /\ (ring /= 0 /\ ops[ring].kind = "Accept" /\ ops[ring].st = "inflight") =>
                /\ last'.ret = "Pending"
                /\ items' = items
                /\ ops' = ops
                /\ ring' = ring]_vars

\* The op kind a poll entry point is for.
KindOf(c) ==
    IF c \in {"accept", "accept_no_addr", "incoming", "incoming_no_addr"} THEN "Accept"
    ELSE IF c \in {"read", "fill_buf"} THEN "Read"
    ELSE IF c \in {"write", "flush"} THEN "Write"
    ELSE IF c = "close" THEN "Close"
    ELSE "none"

\* C11: an operation handed to the driver for cancellation is never observed
\* by a later poll: the completion a poll observes is the one its ring holds
\* and is of the polled kind; and the memory in a cancellation token is not
\* freed before the kernel completed the abandoned operation and the driver
\* released the token.
C11_AbandonedNeverDelivered ==
    [][/\ \A i \in OpIds :
             ops[i].own \in {"cancelled", "released"} =>
                ops'[i].own \in {"cancelled", "released"}
       /\ \A i \in OpIds :
             (ops[i].own = "ring" /\ ops'[i].own = "observed") =>
                /\ i = ring
                /\ ops[i].kind = KindOf(call')
       /\ \A i \in 1..Len(ops') :
             (ops'[i].own = "cancelled" /\ ops'[i].token /= 0) =>
                ops'[i].token \notin freed'
       /\ \A i \in OpIds :
             (ops[i].own = "cancelled" /\ ops'[i].own = "released") =>
                ops[i].st = "done"]_vars

\* The kernel completed an abandoned operation while its successor is still in
\* flight; the token's memory is still allocated.
C11_Witness ==
    /\ call = "kernel"
    /\ ring /= 0
    /\ ops[ring].st = "inflight"
    /\ \E i \in OpIds :
          /\ ops[i].own = "cancelled"
          /\ ops[i].st = "done"
          /\ ops[i].token /= 0
          /\ ops[i].token \notin freed
          /\ ops[i].kind /= ops[ring].kind

\* C12: a Connect created after socket setup failed holds no submission; its
\* first poll returns the stored error without suspending or submitting, the
\* error is yielded exactly once, and every further poll panics.
C12_ConnectErrorOnce ==
    [][/\ conn'.tag = "Err" =>
             /\ conn'.sub = "none"
             /\ conn'.res.ok = FALSE
             /\ Len(conn'.out) <= 1
             /\ (conn'.err = "None") <=> (Len(conn'.out) = 1)
             /\ \A k \in 1..Len(conn'.out) : conn'.out[k] = conn'.res.err
       /\ (conn.tag = "Err" /\ call' = "connect_poll") =>
             /\ Submits(trace') = {}
             /\ last'.ret /= "Pending"
             /\ IF conn.err /= "None"
                THEN /\ last'.ret = "ReadyErr"
                     /\ conn'.out = <<conn.err>>
                ELSE /\ last'.ret = "Panic"
                     /\ conn' = conn]_vars

\* A failed Connect yielded its error and was polled once more.
C12_Witness ==
    /\ conn.tag = "Err"
    /\ call = "connect_poll"
    /\ last.ret = "Panic"
    /\ Len(conn.out) = 1
    /\ conn.out[1] \in Errnos

\* The candidates of an address argument whose raw socket creation succeeds.
Succeeding(a) == {i \in 1..Len(a.cands) : a.cands[i] = "ok"}

\* C13: over the resolved candidates in order, socket setup returns the first
\* candidate whose raw socket creation succeeds and tries none after it; with
\* no candidate it returns the input-validation error; when every candidate
\* fails it returns the OS error of the last one.
C13_SocketFirstSuccess ==
    (conn.tag /= "none" /\ setup.resolves) =>
        IF Succeeding(setup) /= {}
        THEN /\ conn.res.ok
             /\ conn.res.idx \in Succeeding(setup)
             /\ \A j \in Succeeding(setup) : conn.res.idx <= j
             /\ conn.res.tried = conn.res.idx
             /\ conn.tag = "Ok"
        ELSE /\ ~conn.res.ok
             /\ conn.tag = "Err"
             /\ conn.res.tried = Len(setup.cands)
             /\ conn.res.err = IF Len(setup.cands) = 0 THEN "InvalidInput"
                               ELSE setup.cands[Len(setup.cands)]

\* The first candidate failed, the second succeeded, a third was not tried.
C13_Witness ==
    /\ conn.tag = "Ok"
    /\ Len(setup.cands) = 3
    /\ setup.cands[1] \in Errnos
    /\ conn.res.idx = 2
    /\ conn.res.tried = 2

LiveTags == {"Accept", "Read", "Write", "Close"}

\* C14: at every observation point the tag is a live operation kind exactly
\* when a kernel operation of that kind is submitted and not yet observed
\* complete, and it is idle or closed exactly when none is.
C14_TagIffOutstanding ==
    (sock \in {"listener", "stream"} /\ ~dropped) =>
        IF active \in LiveTags
        THEN \E i \in Outstanding : ops[i].kind = active
        ELSE Outstanding = {}

\* guard_op of the socket's own type.
Guard(s, op) ==
    IF s.sock = "listener" THEN TcpListener_guard_op(s, op)
    ELSE TcpStream_guard_op(s, op)

GuardOps == IF sock = "listener" THEN {"Accept", "Close"}
            ELSE {"Read", "Write", "Close"}

\* C15: on a socket that is not closed, guard(op) issues exactly one driver
\* cancellation when the tag is a live kind different from op and none when
\* the tag is idle or already op; the tag is op afterwards; and a second
\* guard(op) issues no cancellation and changes nothing.
C15_GuardIdempotent ==
    (sock \in {"listener", "stream"} /\ ~dropped /\ active /= "Closed") =>
        \A op \in GuardOps :
            LET g == Guard(Begin(St, "guard"), op)
                q == [g EXCEPT !.trace = <<>>]
                h == Guard(q, op)
            IN  /\ Cardinality(Cancels(g.trace)) =
                      IF active \in LiveTags \ {op} THEN 1 ELSE 0
                /\ Len(g.trace) = Cardinality(Cancels(g.trace))
                /\ g.active = op
                /\ h = q

\* A poll of another kind found a live tag: its guard cancelled once and the
\* tag is the polled kind; a guard of the same kind now cancels nothing.
C15_Witness ==
    /\ call \in PollCalls
    /\ Cardinality(Cancels(trace)) = 1
    /\ active = KindOf(call)
    /\ ring /= 0
    /\ \E i \in OpIds : ops[i].own = "cancelled" /\ ops[i].kind /= active
    /\ Cancels(Guard(Begin(St, "guard"), active).trace) = {}

AcceptWithAddr == {"accept", "incoming"}

\* C16: whenever an accept-with-address poll decodes a peer address, the
\* address buffer it decodes is the buffer that was handed to the kernel in
\* the accept submission whose completion it observed.
C16_DecodesSubmittedBuffer ==
    [][(/\ call' \in AcceptWithAddr
        /\ ring /= 0
        /\ ops[ring].own = "ring"
        /\ ops'[ring].own = "observed"
        /\ ops[ring].res = "ok") =>
          /\ ops[ring].mem /= 0
          /\ ops[ring].mem = addr]_vars

\* Bytes staged for a write and still in the buffer.
Staged == IF active = "Write" /\ buf.pos < buf.cap THEN buf.cap - buf.pos ELSE 0

\* C17: once a write's completion has been observed, with success or with an
\* error, the staging region is empty: in every state with no write
\* outstanding the buffer holds no staged write bytes, so the next write
\* stages the bytes of its own slice.
C17_StagingEmptyWithoutWrite ==
    (sock = "stream" /\ ~dropped /\ ~(\E i \in Outstanding : ops[i].kind = "Write")) =>
        Staged = 0

\* The poll taking this step observes the completion its ring holds.
ObservesOk == /\ ring /= 0
              /\ ops[ring].own = "ring"
              /\ ops'[ring].own = "observed"
              /\ ops[ring].res = "ok"
ObservesErr == /\ ring /= 0
               /\ ops[ring].own = "ring"
               /\ ops'[ring].own = "observed"
               /\ ops[ring].res = "err"

\* C18 as stated: after every completed accept-with-address poll the listener
\* holds no address buffer.
C18_AddrReleasedOnCompletion ==
    [][(call' \in AcceptWithAddr /\ active /= "Closed" /\ last'.ret /= "Pending") =>
          addr' = 0]_vars

\* C18, amended: the address buffer is allocated only by an accept-with-address
\* poll that finds none; it is the same buffer across the pending polls of one
\* outstanding accept; a poll observing a successful completion releases it; a
\* poll observing a failed completion keeps it in the listener, allocated, for
\* the next accept; and it leaves the listener otherwise only in the token of
\* a cancellation.
C18_AddrReleasedOnSuccess ==
    [][sock = "listener" =>
          /\ nbuf' /= nbuf =>
                /\ call' \in AcceptWithAddr
                /\ addr = 0
                /\ nbuf' = nbuf + 1
          /\ (call' \in AcceptWithAddr /\ addr /= 0 /\ last'.ret = "Pending"
                  /\ Cancels(trace') = {}) =>
                addr' = addr
          /\ (call' \in AcceptWithAddr /\ ObservesOk) =>
                /\ addr' = 0
                /\ (IF addr /= 0 THEN addr ELSE nbuf + 1) \in freed'
          /\ (call' \in AcceptWithAddr /\ ObservesErr) =>
                /\ addr' /= 0
                /\ addr' \notin freed'
                /\ addr /= 0 => addr' = addr
          /\ (addr /= 0 /\ addr' = 0) =>
                \/ call' \in AcceptWithAddr /\ ObservesOk
                \/ Cancels(trace') /= {}]_vars

\* An accept-with-address poll observed a failed completion and the listener
\* still holds the allocated address buffer.
C18_Witness ==
    /\ sock = "listener"
    /\ call \in AcceptWithAddr
    /\ last.ret \in {"ReadyErr", "ReadySomeErr"}
    /\ addr /= 0
    /\ addr \notin freed
    /\ ring = 0

Creates(tr) == {k \in 1..Len(tr) : tr[k].ev = "from_fd"}

\* C19: a poll that observes a kernel operation completed with an error
\* returns the error as an ordinary result, submits nothing further in that
\* poll, and applies none of the operation's success effects: the tag is not
\* set to closed, no stream socket is created, a failed read buffers no data.
C19_ErrorPropagates ==
    [][/\ (call' \in PollCalls /\ ObservesErr) =>
             /\ last'.ret \in {"ReadyErr", "ReadySomeErr"}
             /\ Submits(trace') = {}
             /\ Len(ops') = Len(ops)
             /\ Creates(trace') = {}
             /\ active' = ops[ring].kind
             /\ active' /= "Closed"
             /\ ops[ring].kind = "Read" => buf' = buf
       /\ (call' = "connect_poll" /\ conn.sub = "err") =>
             /\ last'.ret = "ReadyErr"
             /\ Submits(trace') = {}
             /\ Creates(trace') = {}]_vars

\* A failed accept was observed: the poll returned the error, and the listener
\* is neither closed nor has anything in flight.
C19_Witness ==
    /\ call \in {"accept_no_addr", "incoming_no_addr"}
    /\ last.ret \in {"ReadyErr", "ReadySomeErr"}
    /\ trace = <<>>
    /\ active = "Accept"
    /\ ring = 0
    /\ \E i \in OpIds : ops[i].kind = "Accept" /\ ops[i].res = "err" /\ ops[i].own = "observed"

ReadyRets == {"ReadyOk", "ReadyErr", "ReadySomeOk", "ReadySomeErr"}

\* C20: a poll of accept, read, write or close returns pending exactly when
\* the operation it leaves submitted has not been completed by the kernel;
\* hence a re-poll of the same kind that finds the operation completed returns
\* a ready result.
C20_PendingIffIncomplete ==
    [][(call' \in PollCalls /\ active /= "Closed") =>
          /\ (last'.ret = "Pending") <=> (ring' /= 0 /\ ops'[ring'].st = "inflight")
          /\ (ring /= 0 /\ ops[ring].st = "done" /\ ops[ring].kind = KindOf(call')) =>
                last'.ret \in ReadyRets]_vars

====
